---- MODULE Spec2Model ----
(***************************************************************************)
(* Telemetry aggregation engine of eclair-tortoise: the background poller  *)
(* (query_node_info / App::start_workers), the mutex-guarded App state it  *)
(* publishes into, the histogram binner behind the two sparklines and the  *)
(* classification of channels into display groups.                         *)
(*                                                                         *)
(* Conventions.                                                            *)
(*  - Option<T> is a sequence of length <= 1 (<<>> is None).               *)
(*  - A u64 is an integer; where the unchecked build wraps, the value is   *)
(*    kept as its residue modulo 2^64 in the symmetric range, so a         *)
(*    negative integer r stands for 2^64 + r (2^64 itself does not fit the *)
(*    checker's integers).                                                 *)
(*  - f64 index and percentage arithmetic is exact integer arithmetic      *)
(*    (floor of the quotient, which is what the `as usize`/`as u64` casts  *)
(*    do); a quotient x / 0 is kept as the pair <<x, 0>>.                  *)
(*  - A panic while the mutex is held poisons it; every later              *)
(*    lock().unwrap() panics too, so no reader sees the poisoned state.    *)
(***************************************************************************)
EXTENDS Integers, Sequences, FiniteSets, TLC

\* ------------------------------------------------------------- constants
\* App::LINE_PERIOD (seconds in the histogram window)
LINE_PERIOD == 24 * 3600

\* App::LINE_MARGINS
LINE_MARGINS == 2

\* interval of get_*_month
MONTH == 30 * 24 * 3600

\* interval of get_*_day, stats_interval and the hosted/fiat statistics
DAY == 24 * 3600

\* screen_width set by App::new
InitWidth == 80

\* ---------------------------------------------------------------- bounds
\* number of times the wall clock advances
MaxTicks == 1

\* entries the error log may hold before failures stop being injected
MaxErrors == 1

\* events per audit log fed to the binner on its own
MaxEvents == 3

\* channels per list fed to the classification on its own
MaxChans == 3

\* the wall clock at start-up and the grain by which it advances
T0 == 40 * DAY

ClockStep == LINE_PERIOD \div 2

\* the terminal widths the presentation layer may supply: the start-up width,
\* the narrowest width with a bucket, and one column less
Widths == {InitWidth, LINE_MARGINS + 1, LINE_MARGINS}

\* ---------------------------------------------------------------- helpers
RECURSIVE SumUpTo(_, _)
SumUpTo(s, n) ==
    IF n = 0 THEN 0 ELSE s[n] + SumUpTo(s, n - 1)

SumSeq(s) ==
    SumUpTo(s, Len(s))

\* iter().max() of a non-empty vector (v is s, evaluated once)
MaxSeq(s) ==
    CHOOSE m \in UNION { { x \in { v[i] : i \in 1..Len(v) } :
                               \A j \in 1..Len(v) : v[j] <= x } : v \in {s} } : TRUE

Zeros(n) ==
    [i \in 1..n |-> 0]

\* ------------------------------------------------------ ChannelState
ChannelStates ==
    {"NORMAL", "OPENING", "CLOSING", "CLOSED", "OFFLINE", "SYNCING",
     "WAIT_FOR_FUNDING_CONFIRMED"}

is_normal(s) ==
    s = "NORMAL"

is_pending_closed_too(s) ==
    s \in {"CLOSING", "OPENING", "SYNCING", "WAIT_FOR_FUNDING_CONFIRMED", "CLOSED"}

is_pending(s) ==
    \/ s = "CLOSING"
    \/ s = "OPENING"
    \/ s = "SYNCING"
    \/ s = "WAIT_FOR_FUNDING_CONFIRMED"

is_sleeping(s) ==
    s = "OFFLINE"

\* ---------------------------------------------- channel groups (App)
get_active_chans(channels) ==
    Len(SelectSeq(channels, LAMBDA c : is_normal(c.state)))

get_pending_chans(channels) ==
    Len(SelectSeq(channels, LAMBDA c : is_pending(c.state)))

get_sleeping_chans(channels) ==
    Len(SelectSeq(channels, LAMBDA c : is_sleeping(c.state)))

\* to_local of the channels of a group that carry a payload
LocalOf(chans) ==
    LET with_data == SelectSeq(chans, LAMBDA c : c.data # <<>>)
    IN  [i \in 1..Len(with_data) |-> with_data[i].data[1].to_local]

\* the sum taken over every channel, the state filter forgotten
get_active_sats_unfiltered(channels) ==
    SumSeq(LocalOf(channels))

get_active_sats(channels) ==
    SumSeq(LocalOf(SelectSeq(channels, LAMBDA c : c.state = "NORMAL")))

get_pending_sats(channels) ==
    SumSeq(LocalOf(SelectSeq(channels, LAMBDA c : is_pending(c.state))))

get_sleeping_sats(channels) ==
    SumSeq(LocalOf(SelectSeq(channels, LAMBDA c : is_sleeping(c.state))))

\* ------------------------------------------------ window totals (App)
InWindow(relayed, interval, t) ==
    SelectSeq(relayed, LAMBDA s : s.unix > t - interval)

get_relayed(relayed, interval, t) ==
    LET w == InWindow(relayed, interval, t)
    IN  SumSeq([i \in 1..Len(w) |-> w[i].amount_in])

get_relayed_count(relayed, interval, t) ==
    LET w == InWindow(relayed, interval, t)
    IN  SumSeq([i \in 1..Len(w) |-> 1])

\* amount_in - amount_out on u64: the checked build panics on a negative
\* difference, the unchecked build wraps (the residue is kept).
FeeSum(w, checks) ==
    LET overflow == \E i \in 1..Len(w) : w[i].amount_in < w[i].amount_out
    IN  [panic |-> checks /\ overflow,
         overflow |-> overflow,
         value |-> SumSeq([i \in 1..Len(w) |-> w[i].amount_in - w[i].amount_out])]

get_fee(relayed, interval, t, checks) ==
    FeeSum(InWindow(relayed, interval, t), checks)

\* the rate of one month, the factor 12 forgotten
get_return_rate_monthly(fee_month, local_volume) ==
    <<100 * fee_month, local_volume>>

get_return_rate(fee_month, local_volume) ==
    <<12 * 100 * fee_month, local_volume>>

\* ------------------------------------------------ histogram binner (App)
RECURSIVE InsertByUnix(_, _)
InsertByUnix(sorted, e) ==
    IF sorted = <<>> THEN <<e>>
    ELSE IF Head(sorted).unix <= e.unix
         THEN <<Head(sorted)>> \o InsertByUnix(Tail(sorted), e)
         ELSE <<e>> \o sorted

\* relays.sort_by(timestamp): a stable sort
RECURSIVE SortByUnix(_)
SortByUnix(s) ==
    IF s = <<>> THEN <<>>
    ELSE InsertByUnix(SortByUnix(SubSeq(s, 1, Len(s) - 1)), s[Len(s)])

\* line_width = screen_width - LINE_MARGINS - 1 and vec![0; line_width + 1].
\* Below 3 columns the subtraction underflows: a panic in the checked build;
\* in the unchecked build line_width wraps (kept as its negative residue) and
\* line_width + 1 is 0 for width 2 and an allocation of about 2^64 words
\* (capacity overflow, a panic) for widths 0 and 1.
LineBuckets(screen_width, checks) ==
    LET line_width == screen_width - LINE_MARGINS - 1
    IN  IF line_width >= 0
        THEN [panic |-> FALSE, line_width |-> line_width, result |-> Zeros(line_width + 1)]
        ELSE IF checks \/ line_width + 1 # 0
        THEN [panic |-> TRUE, line_width |-> line_width, result |-> <<>>]
        ELSE [panic |-> FALSE, line_width |-> line_width, result |-> <<>>]

\* i = ((t - t0) / (t1 - t0) * line_width) as usize, 0-based; a wrapped
\* line_width gives an index far beyond any vector.
BucketIndex(t, t0, t1, line_width, len) ==
    IF line_width < 0 THEN len
    ELSE ((t - t0) * line_width) \div (t1 - t0)

\* the for loop over the sorted events: result[i] += 1 or += amount;
\* result[i] panics when i is not an index of result.
RECURSIVE Accumulate(_, _, _, _, _, _)
Accumulate(evs, result, t0, t1, line_width, weighted) ==
    IF evs = <<>> THEN [panic |-> FALSE, result |-> result]
    ELSE CHOOSE out \in
            { IF i >= Len(res)
              THEN [panic |-> TRUE, result |-> res]
              ELSE Accumulate(Tail(es),
                              [res EXCEPT ![i + 1] = @ + (IF weighted THEN es[1].amount_in ELSE 1)],
                              t0, t1, line_width, weighted) :
                es \in {evs}, res \in {result},
                i \in {BucketIndex(Head(evs).unix, t0, t1, line_width, Len(result))} } : TRUE

\* rescaling to percentages of the total instead of the largest bucket
NormalizeByTotal(result, max_relay) ==
    [i \in 1..Len(result) |-> (100 * result[i]) \div SumSeq(result)]

\* rescaling to percentages of the largest bucket: (100.0 * a / max) as u64
\* (r and m are the two arguments, evaluated once)
Normalize(result, max_relay) ==
    CHOOSE line \in { [i \in 1..Len(r) |-> (100 * r[i]) \div m] :
                        r \in {result}, m \in {max_relay} } : TRUE

\* what the function returns, relays being the retained events in order,
\* alloc the allocation of the buckets and acc the outcome of the loop over
\* the events: the panic of the allocation or of the loop, the zero vector
\* when nothing was retained, the rescaled buckets, or the empty vector when
\* the largest bucket is 0. raw is the bucket vector as accumulated, kept
\* for the properties about it.
FinishLine(relays, alloc, acc) ==
    LET max_relay == IF acc.result = <<>> THEN 0 ELSE MaxSeq(acc.result)
        overflow == alloc.line_width < 0
    IN  IF alloc.panic
        THEN [panic |-> TRUE, overflow |-> overflow, line |-> <<>>, max |-> 0, raw |-> <<>>]
        ELSE IF relays = <<>>
        THEN [panic |-> FALSE, overflow |-> overflow, line |-> alloc.result, max |-> 0,
              raw |-> alloc.result]
        ELSE IF acc.panic
        THEN [panic |-> TRUE, overflow |-> overflow, line |-> <<>>, max |-> 0,
              raw |-> acc.result]
        ELSE IF max_relay > 0
        THEN [panic |-> FALSE, overflow |-> overflow,
              line |-> Normalize(acc.result, max_relay), max |-> max_relay,
              raw |-> acc.result]
        ELSE [panic |-> FALSE, overflow |-> overflow, line |-> <<>>, max |-> max_relay,
              raw |-> acc.result]

\* get_relays_amounts_line (weighted = FALSE) and get_relays_volumes_line
\* (weighted = TRUE): filter, sort, allocate, accumulate, rescale (the
\* three intermediate values are computed once each)
RelaysLine(relayed, screen_width, t, checks, weighted) ==
    CHOOSE out \in UNION {
        { FinishLine(relays, alloc, acc) :
            acc \in {Accumulate(relays, alloc.result, t - LINE_PERIOD, t,
                                alloc.line_width, weighted)} } :
        relays \in {SortByUnix(InWindow(relayed, LINE_PERIOD, t))},
        alloc \in {LineBuckets(screen_width, checks)} } : TRUE

get_relays_amounts_line(relayed, screen_width, t, checks) ==
    RelaysLine(relayed, screen_width, t, checks, FALSE)

get_relays_volumes_line(relayed, screen_width, t, checks) ==
    RelaysLine(relayed, screen_width, t, checks, TRUE)

\* ------------------------------------------- per-channel statistics (App)
\* the relay events of one channel inside the lookback window
RelaysOf(relayed, channel_id, interval, t) ==
    SelectSeq(relayed, LAMBDA s :
        (s.from_channel_id = channel_id \/ s.to_channel_id = channel_id)
        /\ s.unix > t - interval)

\* known_nodes.get(node_id).map(alias).unwrap_or(node_id)
AliasOf(known_nodes, node_id) ==
    IF node_id \in DOMAIN known_nodes THEN known_nodes[node_id].alias ELSE node_id

NoFiat ==
    [rate |-> 0, fiat_balance |-> <<0, 1>>]

\* the tag chosen without a look at the payload
get_channel_stats_untagged(i, interval, chan, relayed, known_nodes, t, checks) ==
    LET relays == RelaysOf(relayed, chan.channel_id, interval, t)
        fees   == FeeSum(relays, checks)
    IN  [panic |-> fees.panic,
         overflow |-> fees.overflow,
         stats |-> [chan_state    |-> chan.state,
                    node_id       |-> chan.node_id,
                    chan_id       |-> chan.channel_id,
                    alias         |-> AliasOf(known_nodes, chan.node_id),
                    local         |-> IF chan.data = <<>> THEN 0 ELSE chan.data[1].to_local,
                    remote        |-> IF chan.data = <<>> THEN 0 ELSE chan.data[1].to_remote,
                    relays_amount |-> Len(relays),
                    relays_volume |-> SumSeq([k \in 1..Len(relays) |-> relays[k].amount_in]),
                    relays_fees   |-> fees.value,
                    info_id       |-> i,
                    public        |-> IF chan.data = <<>> THEN FALSE
                                      ELSE IF chan.data[1].announce_channel = <<>> THEN FALSE
                                      ELSE chan.data[1].announce_channel[1],
                    channel_ext   |-> "Normal",
                    fiat          |-> NoFiat]]

get_channel_stats(i, interval, chan, relayed, known_nodes, t, checks) ==
    LET relays == RelaysOf(relayed, chan.channel_id, interval, t)
        fees   == FeeSum(relays, checks)
    IN  [panic |-> fees.panic,
         overflow |-> fees.overflow,
         stats |-> [chan_state    |-> chan.state,
                    node_id       |-> chan.node_id,
                    chan_id       |-> chan.channel_id,
                    alias         |-> AliasOf(known_nodes, chan.node_id),
                    local         |-> IF chan.data = <<>> THEN 0 ELSE chan.data[1].to_local,
                    remote        |-> IF chan.data = <<>> THEN 0 ELSE chan.data[1].to_remote,
                    relays_amount |-> Len(relays),
                    relays_volume |-> SumSeq([k \in 1..Len(relays) |-> relays[k].amount_in]),
                    relays_fees   |-> fees.value,
                    info_id       |-> i,
                    public        |-> IF chan.data = <<>> THEN FALSE
                                      ELSE IF chan.data[1].announce_channel = <<>> THEN FALSE
                                      ELSE chan.data[1].announce_channel[1],
                    channel_ext   |-> IF chan.data = <<>> THEN "Hosted" ELSE "Normal",
                    fiat          |-> NoFiat]]

get_hosted_channel_stats(i, channel_id, chan, relayed, known_nodes, t, checks) ==
    LET relays == RelaysOf(relayed, channel_id, DAY, t)
        fees   == FeeSum(relays, checks)
    IN  [panic |-> fees.panic,
         overflow |-> fees.overflow,
         stats |-> [chan_state    |-> chan.state,
                    node_id       |-> chan.remote_node_id,
                    chan_id       |-> channel_id,
                    alias         |-> AliasOf(known_nodes, chan.remote_node_id),
                    local         |-> chan.to_local,
                    remote        |-> chan.to_remote,
                    relays_amount |-> Len(relays),
                    relays_volume |-> SumSeq([k \in 1..Len(relays) |-> relays[k].amount_in]),
                    relays_fees   |-> fees.value,
                    info_id       |-> i,
                    public        |-> FALSE,
                    channel_ext   |-> "Hosted",
                    fiat          |-> NoFiat]]

get_fiat_channel_stats(i, channel_id, chan, relayed, known_nodes, t, checks) ==
    LET relays == RelaysOf(relayed, channel_id, DAY, t)
        fees   == FeeSum(relays, checks)
    IN  [panic |-> fees.panic,
         overflow |-> fees.overflow,
         stats |-> [chan_state    |-> chan.state,
                    node_id       |-> chan.remote_node_id,
                    chan_id       |-> channel_id,
                    alias         |-> AliasOf(known_nodes, chan.remote_node_id),
                    local         |-> chan.local_balance_msat,
                    remote        |-> chan.remote_balance_msat,
                    relays_amount |-> Len(relays),
                    relays_volume |-> SumSeq([k \in 1..Len(relays) |-> relays[k].amount_in]),
                    relays_fees   |-> fees.value,
                    info_id       |-> i,
                    public        |-> FALSE,
                    channel_ext   |-> "HostedFiat",
                    fiat          |-> [rate |-> chan.rate,
                                       fiat_balance |-> <<chan.remote_balance_msat, chan.rate>>]]]

\* a vector of per-channel results: the first panic aborts the whole map
Collect(results) ==
    [panic |-> \E k \in 1..Len(results) : results[k].panic,
     overflow |-> \E k \in 1..Len(results) : results[k].overflow,
     stats |-> [k \in 1..Len(results) |-> results[k].stats]]

\* info_id counted from 1
get_channels_stats_from_one(interval, channels, relayed, known_nodes, t, checks) ==
    Collect([k \in 1..Len(channels) |->
        get_channel_stats(k, interval, channels[k], relayed, known_nodes, t, checks)])

\* channels.iter().enumerate(): info_id is the 0-based position
get_channels_stats(interval, channels, relayed, known_nodes, t, checks) ==
    Collect([k \in 1..Len(channels) |->
        get_channel_stats(k - 1, interval, channels[k], relayed, known_nodes, t, checks)])

\* hc_channels is a HashMap: order is the order its iterator happens to yield
get_hosted_stats(hc_channels, order, relayed, known_nodes, t, checks) ==
    Collect([k \in 1..Len(order) |->
        get_hosted_channel_stats(k - 1, order[k], hc_channels[order[k]],
                                 relayed, known_nodes, t, checks)])

get_fiat_stats(fc_channels, order, relayed, known_nodes, t, checks) ==
    Collect([k \in 1..Len(order) |->
        get_fiat_channel_stats(k - 1, order[k], fc_channels[order[k]],
                               relayed, known_nodes, t, checks)])

\* the orders in which a HashMap with these keys can be iterated
IterOrders(map) ==
    { o \in [1..Cardinality(DOMAIN map) -> DOMAIN map] :
        \A i, j \in DOMAIN o : i # j => o[i] # o[j] }

\* nodes_info.iter().map(|n| (n.node_id, n)).collect::<HashMap>()
NodeMap(nodes_info) ==
    [id \in { nodes_info[k].node_id : k \in 1..Len(nodes_info) } |->
        LET last == CHOOSE k \in 1..Len(nodes_info) :
                        /\ nodes_info[k].node_id = id
                        /\ \A j \in 1..Len(nodes_info) : nodes_info[j].node_id = id => j <= k
        IN  nodes_info[last]]

EmptyMap ==
    [x \in {} |-> 0]

\* ------------------------------------------- what the remote node answers
Data(to_local, to_remote, announce) ==
    <<[to_local |-> to_local, to_remote |-> to_remote, announce_channel |-> announce]>>

Chan(node_id, channel_id, state, data) ==
    [node_id |-> node_id, channel_id |-> channel_id, state |-> state, data |-> data]

Relay(amount_in, amount_out, from, to, unix) ==
    [amount_in |-> amount_in, amount_out |-> amount_out,
     from_channel_id |-> from, to_channel_id |-> to, unix |-> unix]

\* three channels, one per display group
ChannelsA ==
    << Chan("n1", "c1", "NORMAL",  Data(1000, 2000, <<TRUE>>)),
       Chan("n2", "c2", "OFFLINE", Data(500, 0, <<FALSE>>)),
       Chan("n3", "c3", "OPENING", Data(250, 50, <<>>)) >>

\* a channel without payload, a closed channel, a second pending state
ChannelsB ==
    << Chan("n1", "c1", "NORMAL", <<>>),
       Chan("n2", "c4", "CLOSED", Data(700, 0, <<TRUE>>)),
       Chan("n1", "c2", "SYNCING", Data(300, 10, <<TRUE>>)) >>


\* two relays in the last bucket, one half a day old, one two days old
AuditBusy ==
    << Relay(1000, 990, "c1", "c2", T0 - 10),
       Relay(3000, 2990, "c2", "h1", T0 - 20),
       Relay(500, 499, "f1", "c3", T0 - ClockStep),
       Relay(200, 100, "c3", "c1", T0 - 2 * DAY) >>

\* a relay of amount 0 stamped with the start-up time
AuditZero ==
    << Relay(0, 0, "c1", "c2", T0) >>

\* a relay stamped far ahead of the dashboard's clock
AuditAhead ==
    << Relay(1000, 990, "c1", "c2", T0 + 10 * DAY) >>

\* a relay that forwards more than it received
AuditLoss ==
    << Relay(100, 200, "c1", "c2", T0 - 10) >>

\* the states of the node a cycle may meet: its channel list and its audit log
NodeStates ==
    { [channels |-> <<>>,      relayed |-> <<>>],
      [channels |-> ChannelsA, relayed |-> AuditBusy],
      [channels |-> ChannelsB, relayed |-> AuditZero],
      [channels |-> ChannelsA, relayed |-> AuditAhead],
      [channels |-> ChannelsB, relayed |-> AuditLoss] }

ChannelLists ==
    { n.channels : n \in NodeStates }

\* the audit logs the node may answer after it answered chan_info
AuditLogs(chan_info) ==
    { n.relayed : n \in { m \in NodeStates : m.channels = chan_info } }

\* the peers the node's directory knows
Directory ==
    << [node_id |-> "n1", alias |-> "alice"], [node_id |-> "n2", alias |-> "bob"] >>

\* channel_nodes: the distinct counterparts of the fetched channels
ChannelNodes(chan_info) ==
    { chan_info[k].node_id : k \in 1..Len(chan_info) }

NodesAnswer(ids) ==
    SelectSeq(Directory, LAMBDA n : n.node_id \in ids)

HostedMap ==
    [id \in {"h1"} |-> [state |-> "NORMAL", remote_node_id |-> "n2",
                        to_local |-> 400, to_remote |-> 600]]

FiatMap ==
    [id \in {"f1"} |-> [state |-> "OFFLINE", remote_node_id |-> "n3",
                        local_balance_msat |-> 100, remote_balance_msat |-> 900,
                        rate |-> 3]]

ErrorKinds ==
    {"ReqwestErr", "DecodingErr"}

Plugins ==
    {"HostedChannels", "FiatChannels"}

\* ------------------------------------------------------------------ state
VARIABLES
    app,              \* the App behind the mutex
    holder,           \* who holds the mutex: "none", "worker"
    proc,             \* "running", "poisoned" (the worker panicked under the
                      \* lock), "exited" (the UI thread panicked)
    now,              \* the wall clock, Unix seconds
    pc,               \* where the worker task is
    w,                \* the worker's locals of the cycle in flight
    overflow_checks,  \* the build profile: TRUE panics on integer overflow
                      \* (debug), FALSE wraps (release)
    cycle,            \* history: stored, the field groups the publish in
                      \* progress has assigned so far; outcome, how the
                      \* cycle the worker sleeps after has ended
    fn_in,            \* argument and result of a function applied on its own
    fn_out

vars ==
    <<app, holder, proc, now, pc, w, overflow_checks, cycle, fn_in, fn_out>>

NoLocals ==
    [chan_info |-> <<>>, audit_info |-> <<>>, nodes_info |-> <<>>,
     hosted_chans |-> EmptyMap, fiat_chans |-> EmptyMap, err |-> "none"]

\* App::new
NewApp(supported) ==
    [errors |-> <<>>,
     supported |-> supported,
     node_info |-> "tortoise",
     active_chans |-> 0, pending_chans |-> 0, sleeping_chans |-> 0,
     active_sats |-> 0, pending_sats |-> 0, sleeping_sats |-> 0,
     relayed_count_month |-> 0, relayed_count_day |-> 0,
     relayed_month |-> 0, relayed_day |-> 0,
     fee_month |-> 0, fee_day |-> 0,
     return_rate |-> <<0, 1>>,
     screen_width |-> InitWidth,
     relays_maximum_volume |-> 0, relays_maximum_count |-> 0,
     relays_amounts_line |-> <<>>, relays_volumes_line |-> <<>>,
     channels_stats |-> <<>>, hosted_stats |-> <<>>, fiat_stats |-> <<>>,
     channels |-> <<>>, audit |-> <<>>,
     known_nodes |-> EmptyMap, hc_channels |-> EmptyMap, fc_channels |-> EmptyMap]

Idle ==
    [kind |-> "idle"]

Init ==
    /\ \E supported \in SUBSET Plugins : app = NewApp(supported)
    /\ holder = "none"
    /\ proc = "running"
    /\ now = T0
    /\ pc = "start"
    /\ w = NoLocals
    /\ overflow_checks \in BOOLEAN
    /\ cycle = [stored |-> {}, outcome |-> "none"]
    /\ fn_in = Idle
    /\ fn_out = Idle

\* ---------------------------------------------------------------- worker
\* a query or its decoding fails: query_node_info returns Err at the `?`
Fails(kind) ==
    /\ Len(app.errors) < MaxErrors
    /\ pc' = "failed"
    /\ w' = [NoLocals EXCEPT !.err = kind]

\* the hosted query issued whatever the start-up probe found
AfterNodesAlwaysHosted(supported) ==
    "get_hosted"

\* where the chain goes after the node lookup, by the supported plugins
AfterNodes(supported) ==
    IF "HostedChannels" \in supported THEN "get_hosted"
    ELSE IF "FiatChannels" \in supported THEN "get_fiat"
    ELSE "publish"

\* the fiat query skipped after the hosted one
AfterHostedSkippingFiat(supported) ==
    "publish"

AfterHosted(supported) ==
    IF "FiatChannels" \in supported THEN "get_fiat" ELSE "publish"

\* a panic while the worker holds the lock: the task dies, the mutex is poisoned
WorkerPanics ==
    /\ proc' = "poisoned"
    /\ pc' = "dead"
    /\ holder' = "none"
    /\ w' = NoLocals

\* the guard taken to clone the client kept for the rest of the function
StartCycleKeepingLock ==
    /\ proc = "running" /\ pc = "start" /\ holder = "none"
    /\ pc' = "get_channels"
    /\ holder' = "worker"
    /\ UNCHANGED <<app, proc, now, w, overflow_checks, cycle, fn_in, fn_out>>

\* query_node_info, line 713: lock, clone the client, unlock
StartCycle ==
    /\ proc = "running" /\ pc = "start" /\ holder = "none"
    /\ pc' = "get_channels"
    /\ UNCHANGED <<app, holder, proc, now, w, overflow_checks, cycle, fn_in, fn_out>>

GetChannels ==
    /\ proc = "running" /\ pc = "get_channels"
    /\ \/ \E l \in ChannelLists :
            /\ w' = [w EXCEPT !.chan_info = l]
            /\ pc' = "get_audit"
       \/ \E kind \in ErrorKinds : Fails(kind)
    /\ UNCHANGED <<app, holder, proc, now, overflow_checks, cycle, fn_in, fn_out>>

GetAudit ==
    /\ proc = "running" /\ pc = "get_audit"
    /\ \/ \E a \in AuditLogs(w.chan_info) :
            /\ w' = [w EXCEPT !.audit_info = a]
            /\ pc' = "get_nodes"
       \/ \E kind \in ErrorKinds : Fails(kind)
    /\ UNCHANGED <<app, holder, proc, now, overflow_checks, cycle, fn_in, fn_out>>

\* get_nodes for the distinct counterparts, then line 723: lock, clone
\* supported, unlock
GetNodes ==
    /\ proc = "running" /\ pc = "get_nodes" /\ holder = "none"
    /\ \/ /\ w' = [w EXCEPT !.nodes_info = NodesAnswer(ChannelNodes(w.chan_info))]
          /\ pc' = AfterNodes(app.supported)
       \/ \E kind \in ErrorKinds : Fails(kind)
    /\ UNCHANGED <<app, holder, proc, now, overflow_checks, cycle, fn_in, fn_out>>

GetHosted ==
    /\ proc = "running" /\ pc = "get_hosted"
    /\ \/ /\ w' = [w EXCEPT !.hosted_chans = HostedMap]
          /\ pc' = AfterHosted(app.supported)
       \/ \E kind \in ErrorKinds : Fails(kind)
    /\ UNCHANGED <<app, holder, proc, now, overflow_checks, cycle, fn_in, fn_out>>

GetFiat ==
    /\ proc = "running" /\ pc = "get_fiat"
    /\ \/ /\ w' = [w EXCEPT !.fiat_chans = FiatMap]
          /\ pc' = "publish"
       \/ \E kind \in ErrorKinds : Fails(kind)
    /\ UNCHANGED <<app, holder, proc, now, overflow_checks, cycle, fn_in, fn_out>>

\* the first assignments of the publish made under a lock of their own,
\* released before the rest
PublishGroupsUnlocked ==
    /\ proc = "running" /\ pc = "publish" /\ holder = "none"
    /\ holder' = "none"
    /\ app' = [app EXCEPT
            !.channels = w.chan_info,
            !.hc_channels = w.hosted_chans,
            !.fc_channels = w.fiat_chans,
            !.active_chans = get_active_chans(w.chan_info),
            !.pending_chans = get_pending_chans(w.chan_info),
            !.sleeping_chans = get_sleeping_chans(w.chan_info),
            !.active_sats = get_active_sats(w.chan_info),
            !.pending_sats = get_pending_sats(w.chan_info),
            !.sleeping_sats = get_sleeping_sats(w.chan_info)]
    /\ w' = [w EXCEPT !.chan_info = <<>>, !.hosted_chans = EmptyMap, !.fiat_chans = EmptyMap]
    /\ pc' = "publish_lines"
    /\ cycle' = [cycle EXCEPT !.stored = {"groups"}]
    /\ UNCHANGED <<proc, now, overflow_checks, fn_in, fn_out>>

\* lines 743-754: take the lock, store the fetched channels and maps,
\* recompute the group counts and balance sums
PublishGroups ==
    /\ proc = "running" /\ pc = "publish" /\ holder = "none"
    /\ holder' = "worker"
    /\ app' = [app EXCEPT
            !.channels = w.chan_info,
            !.hc_channels = w.hosted_chans,
            !.fc_channels = w.fiat_chans,
            !.active_chans = get_active_chans(w.chan_info),
            !.pending_chans = get_pending_chans(w.chan_info),
            !.sleeping_chans = get_sleeping_chans(w.chan_info),
            !.active_sats = get_active_sats(w.chan_info),
            !.pending_sats = get_pending_sats(w.chan_info),
            !.sleeping_sats = get_sleeping_sats(w.chan_info)]
    /\ w' = [w EXCEPT !.chan_info = <<>>, !.hosted_chans = EmptyMap, !.fiat_chans = EmptyMap]
    /\ pc' = "publish_lines"
    /\ cycle' = [cycle EXCEPT !.stored = {"groups"}]
    /\ UNCHANGED <<proc, now, overflow_checks, fn_in, fn_out>>

\* lines 756-764 on the App a: store the audit log, recompute the count
\* line, then the volume line; a panic leaves what was assigned before it
publish_lines(a, audit_info, t, checks) ==
    CHOOSE out \in {
        LET logged  == [a EXCEPT !.audit = audit_info]
            counted == [logged EXCEPT !.relays_amounts_line = amounts.line,
                                      !.relays_maximum_count = amounts.max]
        IN  IF amounts.panic THEN [panic |-> TRUE, app |-> logged]
            ELSE IF volumes.panic THEN [panic |-> TRUE, app |-> counted]
            ELSE [panic |-> FALSE,
                  app |-> [counted EXCEPT !.relays_volumes_line = volumes.line,
                                          !.relays_maximum_volume = volumes.max]] :
        amounts \in {get_relays_amounts_line(audit_info, a.screen_width, t, checks)},
        volumes \in {get_relays_volumes_line(audit_info, a.screen_width, t, checks)} } : TRUE

PublishLines ==
    /\ proc = "running" /\ pc = "publish_lines"
    /\ \E r \in {publish_lines(app, w.audit_info, now, overflow_checks)} :
           /\ app' = r.app
           /\ IF r.panic
              THEN /\ WorkerPanics
                   /\ UNCHANGED cycle
              ELSE /\ w' = [w EXCEPT !.audit_info = <<>>]
                   /\ pc' = "publish_totals"
                   /\ cycle' = [cycle EXCEPT !.stored = @ \cup {"lines"}]
                   /\ UNCHANGED <<holder, proc>>
    /\ UNCHANGED <<now, overflow_checks, fn_in, fn_out>>

\* lines 766-779: window totals, fees and the return rate
PublishTotals ==
    /\ proc = "running" /\ pc = "publish_totals"
    /\ \E fee_month \in {get_fee(app.audit, MONTH, now, overflow_checks)},
          fee_day \in {get_fee(app.audit, DAY, now, overflow_checks)} :
       LET counted == [app EXCEPT
                !.relayed_month = get_relayed(app.audit, MONTH, now),
                !.relayed_day = get_relayed(app.audit, DAY, now),
                !.relayed_count_month = get_relayed_count(app.audit, MONTH, now),
                !.relayed_count_day = get_relayed_count(app.audit, DAY, now)]
       IN  /\ IF fee_month.panic
              THEN /\ app' = counted
                   /\ WorkerPanics
                   /\ UNCHANGED cycle
              ELSE IF fee_day.panic
              THEN /\ app' = [counted EXCEPT !.fee_month = fee_month.value]
                   /\ WorkerPanics
                   /\ UNCHANGED cycle
              ELSE /\ app' = [counted EXCEPT
                           !.fee_month = fee_month.value,
                           !.fee_day = fee_day.value,
                           !.return_rate = get_return_rate(fee_month.value,
                               app.active_sats + app.pending_sats + app.sleeping_sats)]
                   /\ pc' = "publish_stats"
                   /\ cycle' = [cycle EXCEPT !.stored = @ \cup {"totals"}]
                   /\ UNCHANGED <<holder, proc, w>>
    /\ UNCHANGED <<now, overflow_checks, fn_in, fn_out>>

\* lines 781-791: known nodes, the three statistic lists, release the lock
PublishStats ==
    /\ proc = "running" /\ pc = "publish_stats"
    /\ \E ho \in IterOrders(app.hc_channels), fo \in IterOrders(app.fc_channels),
          known \in {NodeMap(w.nodes_info)} :
       \E chans \in {get_channels_stats(DAY, app.channels, app.audit, known, now,
                                        overflow_checks)},
          hosted \in {get_hosted_stats(app.hc_channels, ho, app.audit, known, now,
                                       overflow_checks)},
          fiat \in {get_fiat_stats(app.fc_channels, fo, app.audit, known, now,
                                   overflow_checks)} :
        LET named == [app EXCEPT !.known_nodes = known]
        IN  /\ IF chans.panic
               THEN /\ app' = named
                    /\ WorkerPanics
                    /\ UNCHANGED cycle
               ELSE IF hosted.panic
               THEN /\ app' = [named EXCEPT !.channels_stats = chans.stats]
                    /\ WorkerPanics
                    /\ UNCHANGED cycle
               ELSE IF fiat.panic
               THEN /\ app' = [named EXCEPT !.channels_stats = chans.stats,
                                            !.hosted_stats = hosted.stats]
                    /\ WorkerPanics
                    /\ UNCHANGED cycle
               ELSE /\ app' = [named EXCEPT !.channels_stats = chans.stats,
                                            !.hosted_stats = hosted.stats,
                                            !.fiat_stats = fiat.stats]
                    /\ holder' = "none"
                    /\ w' = NoLocals
                    /\ pc' = "sleep"
                    /\ cycle' = [stored |-> {}, outcome |-> "published"]
                    /\ UNCHANGED proc
    /\ UNCHANGED <<now, overflow_checks, fn_in, fn_out>>

\* an error handler that also blanks the statistic lists
RecordErrorBlanking ==
    /\ proc = "running" /\ pc = "failed" /\ holder = "none"
    /\ app' = [app EXCEPT !.errors = Append(@, w.err),
                          !.channels_stats = <<>>,
                          !.hosted_stats = <<>>,
                          !.fiat_stats = <<>>]
    /\ w' = NoLocals
    /\ pc' = "sleep"
    /\ cycle' = [cycle EXCEPT !.outcome = "failed"]
    /\ UNCHANGED <<holder, proc, now, overflow_checks, fn_in, fn_out>>

\* the guard taken to push the message kept over the sleep
RecordErrorKeepingLock ==
    /\ proc = "running" /\ pc = "failed" /\ holder = "none"
    /\ app' = [app EXCEPT !.errors = Append(@, w.err)]
    /\ w' = NoLocals
    /\ pc' = "sleep"
    /\ holder' = "worker"
    /\ cycle' = [cycle EXCEPT !.outcome = "failed"]
    /\ UNCHANGED <<proc, now, overflow_checks, fn_in, fn_out>>

\* start_workers, lines 525-531: the cycle returned Err; lock, push the
\* message, unlock
RecordError ==
    /\ proc = "running" /\ pc = "failed" /\ holder = "none"
    /\ app' = [app EXCEPT !.errors = Append(@, w.err)]
    /\ w' = NoLocals
    /\ pc' = "sleep"
    /\ cycle' = [cycle EXCEPT !.outcome = "failed"]
    /\ UNCHANGED <<holder, proc, now, overflow_checks, fn_in, fn_out>>

\* the plugins probed again at the end of every sleep
SleepReprobing ==
    /\ proc = "running" /\ pc = "sleep"
    /\ pc' = "start"
    /\ cycle' = [cycle EXCEPT !.outcome = "none"]
    /\ \E found \in SUBSET Plugins : app' = [app EXCEPT !.supported = found]
    /\ UNCHANGED <<holder, proc, now, w, overflow_checks, fn_in, fn_out>>

\* start_workers, line 532: the 20 s sleep is over
Sleep ==
    /\ proc = "running" /\ pc = "sleep"
    /\ pc' = "start"
    /\ cycle' = [cycle EXCEPT !.outcome = "none"]
    /\ UNCHANGED <<app, holder, proc, now, w, overflow_checks, fn_in, fn_out>>

\* ------------------------------------------------------ presentation layer
\* a resize that stores the width and leaves the lines as they are
resize_width_only(a, new_width, t, checks) ==
    [panic |-> FALSE, overflow |-> FALSE, app |-> [a EXCEPT !.screen_width = new_width]]

\* a resize that recomputes the lines before it stores the new width
resize_stale_width(a, new_width, t, checks) ==
    IF a.screen_width = new_width
    THEN [panic |-> FALSE, overflow |-> FALSE, app |-> a]
    ELSE LET amounts == get_relays_amounts_line(a.audit, a.screen_width, t, checks)
             volumes == get_relays_volumes_line(a.audit, a.screen_width, t, checks)
         IN  [panic |-> amounts.panic \/ volumes.panic,
              overflow |-> amounts.overflow,
              app |-> [a EXCEPT !.screen_width = new_width,
                                !.relays_amounts_line = amounts.line,
                                !.relays_maximum_count = amounts.max,
                                !.relays_volumes_line = volumes.line,
                                !.relays_maximum_volume = volumes.max]]

\* a resize that also drops the per-channel statistics
resize_dropping_stats(a, new_width, t, checks) ==
    IF a.screen_width = new_width
    THEN [panic |-> FALSE, overflow |-> FALSE, app |-> a]
    ELSE LET amounts == get_relays_amounts_line(a.audit, new_width, t, checks)
             volumes == get_relays_volumes_line(a.audit, new_width, t, checks)
         IN  [panic |-> amounts.panic \/ volumes.panic,
              overflow |-> amounts.overflow,
              app |-> [a EXCEPT !.screen_width = new_width,
                                !.relays_amounts_line = amounts.line,
                                !.relays_maximum_count = amounts.max,
                                !.relays_volumes_line = volumes.line,
                                !.relays_maximum_volume = volumes.max,
                                !.channels_stats = <<>>]]

\* App::resize
resize(a, new_width, t, checks) ==
    IF a.screen_width = new_width
    THEN [panic |-> FALSE, overflow |-> FALSE, app |-> a]
    ELSE LET sized   == [a EXCEPT !.screen_width = new_width]
             amounts == get_relays_amounts_line(a.audit, new_width, t, checks)
             counted == [sized EXCEPT !.relays_amounts_line = amounts.line,
                                      !.relays_maximum_count = amounts.max]
             volumes == get_relays_volumes_line(a.audit, new_width, t, checks)
         IN  IF amounts.panic
             THEN [panic |-> TRUE, overflow |-> amounts.overflow, app |-> sized]
             ELSE IF volumes.panic
             THEN [panic |-> TRUE, overflow |-> amounts.overflow, app |-> counted]
             ELSE [panic |-> FALSE, overflow |-> amounts.overflow,
                   app |-> [counted EXCEPT !.relays_volumes_line = volumes.line,
                                           !.relays_maximum_volume = volumes.max]]

\* ui(): lock, resize to the frame's width, render, unlock. A panic in
\* resize unwinds the main thread: the process ends and the worker with it.
Draw ==
    /\ proc = "running" /\ holder = "none"
    /\ \E width \in Widths :
        LET r == resize(app, width, now, overflow_checks)
        IN  /\ app' = r.app
            /\ proc' = IF r.panic THEN "exited" ELSE proc
            /\ pc' = IF r.panic THEN "dead" ELSE pc
            /\ w' = IF r.panic THEN NoLocals ELSE w
    /\ UNCHANGED <<holder, now, overflow_checks, cycle, fn_in, fn_out>>

\* an Enter that clears the log and the statistic lists with it
KeyEnterBlanking ==
    /\ proc = "running" /\ holder = "none"
    /\ app.errors # <<>>
    /\ app' = [app EXCEPT !.errors = <<>>, !.channels_stats = <<>>]
    /\ UNCHANGED <<holder, proc, now, pc, w, overflow_checks, cycle, fn_in, fn_out>>

\* run_app: Enter with a non-empty error log clears it
KeyEnter ==
    /\ proc = "running" /\ holder = "none"
    /\ app.errors # <<>>
    /\ app' = [app EXCEPT !.errors = <<>>]
    /\ UNCHANGED <<holder, proc, now, pc, w, overflow_checks, cycle, fn_in, fn_out>>

\* lock().unwrap() on the poisoned mutex: the UI thread panics, the process ends
UiMeetsPoison ==
    /\ proc = "poisoned" /\ holder = "none"
    /\ proc' = "exited"
    /\ UNCHANGED <<app, holder, now, pc, w, overflow_checks, cycle, fn_in, fn_out>>

\* the wall clock advances
Tick ==
    /\ proc = "running"
    /\ now < T0 + MaxTicks * ClockStep
    /\ now' = now + ClockStep
    /\ UNCHANGED <<app, holder, proc, pc, w, overflow_checks, cycle, fn_in, fn_out>>

Next ==
    \/ StartCycle
    \/ GetChannels
    \/ GetAudit
    \/ GetNodes
    \/ GetHosted
    \/ GetFiat
    \/ PublishGroups
    \/ PublishLines
    \/ PublishTotals
    \/ PublishStats
    \/ RecordError
    \/ Sleep
    \/ Draw
    \/ KeyEnter
    \/ UiMeetsPoison
    \/ Tick

Spec ==
    Init /\ [][Next]_vars

\* what the runtime guarantees the spawned task: a step that only needs the
\* processor or the free mutex is taken, the 20 s sleep ends, and the three
\* queries sent with a 10 s timeout return, with an answer or an error. The
\* hosted and fiat queries are sent without a timeout: nothing makes them
\* return.
\* (At most one of these steps is enabled at a time, so fairness of their
\* disjunction is fairness of each.)
PollerStep ==
    \/ StartCycle
    \/ GetChannels
    \/ GetAudit
    \/ GetNodes
    \/ PublishGroups
    \/ PublishLines
    \/ PublishTotals
    \/ PublishStats
    \/ RecordError
    \/ Sleep

PollerFairness ==
    WF_vars(PollerStep)

LiveSpec ==
    Init /\ [][Next]_vars /\ PollerFairness

\* ------------------------------------------- the pure functions on their own
\* the relay events fed to the binner alone, relative to the clock T0: on the
\* window's edge (dropped by the filter), half a day old twice, just before
\* the clock with and without volume, stamped with the clock, a minute and
\* ten days ahead of it
BinEvents ==
    { Relay(800, 790, "c1", "c2", T0 - LINE_PERIOD),
      Relay(300, 299, "c1", "c2", T0 - ClockStep),
      Relay(800, 790, "c2", "c1", T0 - ClockStep),
      Relay(0, 0, "c1", "c2", T0 - 10),
      Relay(800, 790, "c1", "c2", T0 - 10),
      Relay(300, 299, "c1", "c2", T0),
      Relay(300, 299, "c1", "c2", T0 + 60),
      Relay(300, 299, "c1", "c2", T0 + 10 * DAY) }

\* one channel per state, and one without payload
GroupChans ==
    { Chan("n1", "c1", st, Data(100, 10, <<TRUE>>)) : st \in ChannelStates }
        \cup { Chan("n2", "c2", "NORMAL", <<>>) }

SeqsUpTo(S, n) ==
    UNION { [1..k -> S] : k \in 0..n }

\* the frame widths fed to the binner alone: those of Draw and the widths
\* below the margin
BinWidths ==
    Widths \cup 0..LINE_MARGINS

BinInputs ==
    { [kind |-> "bin", relayed |-> r, screen_width |-> sw, t |-> T0, checks |-> c] :
        r \in SeqsUpTo(BinEvents, MaxEvents), sw \in BinWidths, c \in BOOLEAN }

GroupInputs ==
    { [kind |-> "groups", channels |-> l] : l \in SeqsUpTo(GroupChans, MaxChans) }

\* answers with two hosted and two fiat channels
HostedPair ==
    [id \in {"h1", "h2"} |-> [state |-> "NORMAL", remote_node_id |-> "n2",
                              to_local |-> 400, to_remote |-> 600]]

FiatPair ==
    [id \in {"f1", "f2"} |-> [state |-> "OFFLINE", remote_node_id |-> "n3",
                              local_balance_msat |-> 100, remote_balance_msat |-> 900,
                              rate |-> 3]]

\* the answers of one poll, fed to the statistics of the publish block
SnapshotInputs ==
    { [kind |-> "snapshot", channels |-> n.channels, relayed |-> n.relayed,
       hosted |-> h, fiat |-> f, t |-> T0] :
        n \in { m \in NodeStates : m.relayed \in {<<>>, AuditBusy, AuditZero} },
        h \in {EmptyMap, HostedMap, HostedPair},
        f \in {EmptyMap, FiatMap, FiatPair} }

\* ------------------------------------------------ the start-up probe
\* NodePlugin::known(), in the order the probe walks it
KnownPlugins ==
    <<"HostedChannels", "FiatChannels">>

\* what the node may answer to the POST of a probe: nothing (the request
\* fails in transport) or a response with a status
ProbeStatuses ==
    {200, 204, 401, 404, 500, 503}

ProbeAnswers ==
    { [sent |-> FALSE, status |-> 0] }
        \cup { [sent |-> TRUE, status |-> s] : s \in ProbeStatuses }

\* error_for_status: the statuses 400..599 are errors
IsErrorStatus(status) ==
    status >= 400 /\ status <= 599

\* every failure taken for a missing plugin
support_plugin_lenient(answer) ==
    IF ~answer.sent THEN [err |-> FALSE, value |-> FALSE]
    ELSE IF ~IsErrorStatus(answer.status) THEN [err |-> FALSE, value |-> TRUE]
    ELSE [err |-> FALSE, value |-> FALSE]

\* Result<bool>: send().await? fails in transport; error_for_status is Ok
\* (true), or an error that is 404 (false), or another error (propagated)
support_plugin(answer) ==
    IF ~answer.sent THEN [err |-> TRUE, value |-> FALSE]
    ELSE IF ~IsErrorStatus(answer.status) THEN [err |-> FALSE, value |-> TRUE]
    ELSE IF answer.status = 404 THEN [err |-> FALSE, value |-> FALSE]
    ELSE [err |-> TRUE, value |-> FALSE]

\* the loop over the known plugins from position k on, res collected so far:
\* the first error ends it
RECURSIVE ProbeFrom(_, _, _)
ProbeFrom(answers, k, res) ==
    IF k > Len(KnownPlugins) THEN [err |-> FALSE, res |-> res]
    ELSE LET supported == support_plugin(answers[KnownPlugins[k]])
         IN  IF supported.err THEN [err |-> TRUE, res |-> {}]
             ELSE ProbeFrom(answers, k + 1,
                    IF supported.value THEN res \cup {KnownPlugins[k]} ELSE res)

get_supported_plugins(answers) ==
    ProbeFrom(answers, 1, {})

\* App::new on a node that answered getinfo: Err, or the new App
App_new(answers) ==
    LET supported == get_supported_plugins(answers)
    IN  IF supported.err THEN [err |-> TRUE, app |-> <<>>]
        ELSE [err |-> FALSE, app |-> <<NewApp(supported.res)>>]

\* the answers of the node to the two probes of one start-up
ProbeInputs ==
    { [kind |-> "probe", answers |-> a] : a \in [Plugins -> ProbeAnswers] }

FnInit ==
    /\ app = NewApp({})
    /\ holder = "none"
    /\ proc = "running"
    /\ now = T0
    /\ pc = "start"
    /\ w = NoLocals
    /\ overflow_checks = TRUE
    /\ cycle = [stored |-> {}, outcome |-> "none"]
    /\ fn_in \in BinInputs \cup GroupInputs \cup SnapshotInputs \cup ProbeInputs
    /\ fn_out = Idle

\* get_relays_amounts_line and get_relays_volumes_line on an App holding
\* fn_in.relayed and fn_in.screen_width
ApplyBinner ==
    /\ fn_in.kind = "bin" /\ fn_out = Idle
    /\ fn_out' = [kind |-> "bin",
                  amounts |-> get_relays_amounts_line(fn_in.relayed, fn_in.screen_width,
                                                      fn_in.t, fn_in.checks),
                  volumes |-> get_relays_volumes_line(fn_in.relayed, fn_in.screen_width,
                                                      fn_in.t, fn_in.checks)]
    /\ UNCHANGED <<app, holder, proc, now, pc, w, overflow_checks, cycle, fn_in>>

\* the three group counts and balance sums of an App holding fn_in.channels
ApplyGroups ==
    /\ fn_in.kind = "groups" /\ fn_out = Idle
    /\ fn_out' = [kind |-> "groups",
                  active_chans |-> get_active_chans(fn_in.channels),
                  pending_chans |-> get_pending_chans(fn_in.channels),
                  sleeping_chans |-> get_sleeping_chans(fn_in.channels),
                  active_sats |-> get_active_sats(fn_in.channels),
                  pending_sats |-> get_pending_sats(fn_in.channels),
                  sleeping_sats |-> get_sleeping_sats(fn_in.channels)]
    /\ UNCHANGED <<app, holder, proc, now, pc, w, overflow_checks, cycle, fn_in>>

\* lines 781-789 on the answers fn_in, with the hosted and fiat maps iterated
\* in the orders ho and fo
StatsOf(in, ho, fo) ==
    LET known == NodeMap(NodesAnswer(ChannelNodes(in.channels)))
    IN  [channels_stats |-> get_channels_stats(DAY, in.channels, in.relayed, known,
                                               in.t, TRUE).stats,
         hosted_stats |-> get_hosted_stats(in.hosted, ho, in.relayed, known, in.t, TRUE).stats,
         fiat_stats |-> get_fiat_stats(in.fiat, fo, in.relayed, known, in.t, TRUE).stats]

\* the statistics of the publish block computed twice from the same answers,
\* each time on maps decoded anew: a HashMap's iteration order is fixed by
\* the random keys of its own hasher, so the two runs each have their order
ApplySnapshotTwice ==
    /\ fn_in.kind = "snapshot" /\ fn_out = Idle
    /\ \E ho1, ho2 \in IterOrders(fn_in.hosted), fo1, fo2 \in IterOrders(fn_in.fiat) :
        fn_out' = [kind |-> "snapshot",
                   first |-> StatsOf(fn_in, ho1, fo1),
                   second |-> StatsOf(fn_in, ho2, fo2)]
    /\ UNCHANGED <<app, holder, proc, now, pc, w, overflow_checks, cycle, fn_in>>

\* App::new on a node that answers the probes with fn_in.answers
ApplyProbe ==
    /\ fn_in.kind = "probe" /\ fn_out = Idle
    /\ fn_out' = [kind |-> "probe", started |-> App_new(fn_in.answers)]
    /\ UNCHANGED <<app, holder, proc, now, pc, w, overflow_checks, cycle, fn_in>>

FnNext ==
    \/ ApplyBinner
    \/ ApplyGroups
    \/ ApplySnapshotTwice
    \/ ApplyProbe

FnSpec ==
    FnInit /\ [][FnNext]_vars

\* ------------------------------------------------------------ properties
\* a reader can take the lock: the process runs, the mutex is free and whole
Observable ==
    proc = "running" /\ holder = "none"

\* the snapshot: every field of the App but the error log
SnapshotOf(a) ==
    [a EXCEPT !.errors = <<>>]

\* the worker's positions outside the publish block
FetchSteps ==
    {"start", "get_channels", "get_audit", "get_nodes", "get_hosted", "get_fiat",
     "failed", "sleep"}

\* C1: a step of the poller outside the publish block (every step of a cycle
\* that fails is one) leaves every snapshot field as it was; the step that
\* follows the failure appends exactly one entry to the error log and ends
\* the cycle, and no other such step touches the log.
FailedCycleOnlyLogs ==
    [][ (pc' # pc /\ pc \in FetchSteps /\ proc' = "running") =>
            /\ SnapshotOf(app') = SnapshotOf(app)
            /\ IF pc = "failed"
               THEN /\ \E kind \in ErrorKinds : app'.errors = Append(app.errors, kind)
                    /\ pc' = "sleep"
               ELSE app'.errors = app.errors ]_vars

\* a cycle has just failed after an earlier one published Scenario A
FailedAfterPublish ==
    /\ Observable
    /\ cycle.outcome = "failed"
    /\ app.errors # <<>>
    /\ app.channels = ChannelsA
    /\ Len(app.channels_stats) = 3
    /\ app.relayed_count_day > 0

StatIds(stats) ==
    [k \in 1..Len(stats) |-> stats[k].chan_id]

\* C2: whenever a reader can take the lock no publish is half done: no field
\* group of a cycle is stored without the others, and the fields derived
\* from the channel list and the two channel maps (statistic lists, known
\* nodes) belong to the list and maps that are stored.
ReadersSeeWholeSnapshots ==
    Observable =>
        /\ cycle.stored = {}
        /\ StatIds(app.channels_stats)
             = [k \in 1..Len(app.channels) |-> app.channels[k].channel_id]
        /\ { app.hosted_stats[k].chan_id : k \in 1..Len(app.hosted_stats) }
             = DOMAIN app.hc_channels
        /\ { app.fiat_stats[k].chan_id : k \in 1..Len(app.fiat_stats) }
             = DOMAIN app.fc_channels
        /\ app.known_nodes = NodeMap(NodesAnswer(ChannelNodes(app.channels)))

\* a reader may lock right after a cycle published the second node state
PublishedAndReadable ==
    /\ Observable
    /\ cycle.outcome = "published"
    /\ app.channels = ChannelsB
    /\ app.audit = AuditZero
    /\ Len(app.channels_stats) = 3

\* the display group of a channel state
GroupOf(state) ==
    CASE state = "NORMAL" -> "Active"
      [] state \in {"OPENING", "CLOSING", "SYNCING", "WAIT_FOR_FUNDING_CONFIRMED"} -> "Pending"
      [] state = "OFFLINE" -> "Sleeping"
      [] OTHER -> "None"

Members(channels, group) ==
    { k \in 1..Len(channels) : GroupOf(channels[k].state) = group }

RECURSIVE BalanceOver(_, _)
BalanceOver(channels, ks) ==
    IF ks = {} THEN 0
    ELSE LET k == CHOOSE x \in ks : TRUE
         IN  (IF channels[k].data = <<>> THEN 0 ELSE channels[k].data[1].to_local)
                 + BalanceOver(channels, ks \ {k})

\* C3: in every state a reader can observe, the three stored counts are the
\* numbers of channels of the stored list in the Active, Pending and Sleeping
\* group and the three stored sums are the local balances summed over those
\* channels, a channel without payload counting 0.
GroupFiguresMatchChannels ==
    Observable =>
        /\ app.active_chans = Cardinality(Members(app.channels, "Active"))
        /\ app.pending_chans = Cardinality(Members(app.channels, "Pending"))
        /\ app.sleeping_chans = Cardinality(Members(app.channels, "Sleeping"))
        /\ app.active_sats = BalanceOver(app.channels, Members(app.channels, "Active"))
        /\ app.pending_sats = BalanceOver(app.channels, Members(app.channels, "Pending"))
        /\ app.sleeping_sats = BalanceOver(app.channels, Members(app.channels, "Sleeping"))

\* Scenario A is stored: 1/1000 active, 1/250 pending, 1/500 sleeping
ScenarioAStored ==
    /\ Observable
    /\ app.channels = ChannelsA
    /\ app.active_chans = 1 /\ app.active_sats = 1000
    /\ app.pending_chans = 1 /\ app.pending_sats = 250
    /\ app.sleeping_chans = 1 /\ app.sleeping_sats = 500

\* C4: over the seven channel states the three group predicates are pairwise
\* disjoint (Normal only active, Opening, Closing, Syncing and
\* WaitForFundingConfirmed only pending, Offline only sleeping, Closed in
\* none), and for every channel list the three counts add up to at most the
\* length of the list, to exactly the length when and only when no channel
\* is Closed.
GroupsAreDisjoint ==
    /\ \A st \in ChannelStates :
        /\ is_normal(st) <=> GroupOf(st) = "Active"
        /\ is_pending(st) <=> GroupOf(st) = "Pending"
        /\ is_sleeping(st) <=> GroupOf(st) = "Sleeping"
        /\ GroupOf(st) = "None" <=> st = "CLOSED"
    /\ fn_out.kind = "groups" =>
        LET total  == Len(fn_in.channels)
            sum    == fn_out.active_chans + fn_out.pending_chans + fn_out.sleeping_chans
            closed == \E k \in 1..total : fn_in.channels[k].state = "CLOSED"
        IN  /\ sum <= total
            /\ (sum = total) <=> ~closed

\* a list of three with one Closed channel has been counted: the sum is 2
ClosedLeftOut ==
    /\ fn_out.kind = "groups"
    /\ Len(fn_in.channels) = 3
    /\ Cardinality({ k \in 1..3 : fn_in.channels[k].state = "CLOSED" }) = 1
    /\ fn_out.active_chans + fn_out.pending_chans + fn_out.sleeping_chans = 2

\* C5: when no relay event lies in the trailing day the binner returns an
\* empty series and a maximum of 0, in the count and in the volume variant
\* and for every display width.
EmptyDayGivesEmptySeries ==
    (fn_out.kind = "bin" /\ InWindow(fn_in.relayed, LINE_PERIOD, fn_in.t) = <<>>) =>
        /\ ~fn_out.amounts.panic /\ fn_out.amounts.line = <<>> /\ fn_out.amounts.max = 0
        /\ ~fn_out.volumes.panic /\ fn_out.volumes.line = <<>> /\ fn_out.volumes.max = 0

\* C6 as stated: in every reachable state each stored series has exactly
\* screen_width - LINE_MARGINS buckets.
SeriesHaveWidthMinusMarginBuckets ==
    /\ Len(app.relays_amounts_line) = app.screen_width - LINE_MARGINS
    /\ Len(app.relays_volumes_line) = app.screen_width - LINE_MARGINS

\* C6, amended: in every state of the running process each stored series is
\* either empty or has exactly screen_width - LINE_MARGINS buckets.
SeriesEmptyOrWidthMinusMargin ==
    proc = "running" =>
        \A line \in {app.relays_amounts_line, app.relays_volumes_line} :
            line = <<>> \/ Len(line) = app.screen_width - LINE_MARGINS

\* a relay of amount 0 is stored: the count series is full, the volume one empty
FullCountEmptyVolume ==
    /\ Observable
    /\ app.audit = AuditZero
    /\ app.screen_width = InitWidth
    /\ Len(app.relays_amounts_line) = InitWidth - LINE_MARGINS
    /\ app.relays_volumes_line = <<>>

\* C7: for every set of relay events the buckets of the count variant, as
\* accumulated before the rescaling, add up to the number of events newer
\* than the window's start.
CountBucketsSumToRetained ==
    fn_out.kind = "bin" =>
        /\ ~fn_out.amounts.panic
        /\ SumSeq(fn_out.amounts.raw)
             = Len(InWindow(fn_in.relayed, LINE_PERIOD, fn_in.t))

\* C8: whenever the binner returns and the largest accumulated bucket is not
\* 0, the returned series (count and volume variant) has one value per
\* bucket, its largest value is exactly 100, and the second returned value
\* is the largest accumulated bucket.
NormalizedPeakIsHundred ==
    fn_out.kind = "bin" =>
        \A r \in {fn_out.amounts, fn_out.volumes} :
            (~r.panic /\ r.raw # <<>> /\ MaxSeq(r.raw) > 0) =>
                /\ Len(r.line) = Len(r.raw)
                /\ \A i \in 1..Len(r.line) : r.line[i] >= 0 /\ r.line[i] <= 100
                /\ \E i \in 1..Len(r.line) : r.line[i] = 100
                /\ r.max = MaxSeq(r.raw)

\* two events share a bucket and a third sits in another: 100 and 50
PeakAndHalf ==
    /\ fn_out.kind = "bin"
    /\ ~fn_out.amounts.panic /\ ~fn_out.volumes.panic
    /\ fn_out.amounts.max = 2
    /\ \E i \in 1..Len(fn_out.amounts.line) : fn_out.amounts.line[i] = 50
    /\ fn_out.volumes.max = 1100

\* the four histogram fields of an App
HistOf(a) ==
    <<a.relays_amounts_line, a.relays_maximum_count,
      a.relays_volumes_line, a.relays_maximum_volume>>

\* C9: a step that changes the stored width and leaves the process running
\* stores the histogram fields a poll cycle's rebuild from the stored events
\* at the new width and the same clock stores; and the rebuild step of a
\* successful poll stores what a resize to the stored width would, from the
\* events it has just stored.
ResizeMatchesRebuild ==
    [][ /\ (app'.screen_width # app.screen_width /\ proc' = "running") =>
            HistOf(app') =
                HistOf(publish_lines([app EXCEPT !.screen_width = app'.screen_width],
                                     app.audit, now, overflow_checks).app)
        /\ (pc = "publish_lines" /\ pc' = "publish_totals") =>
            HistOf(app') =
                HistOf(resize([app EXCEPT !.audit = w.audit_info,
                                          !.screen_width = app.screen_width + 1],
                              app.screen_width, now, overflow_checks).app) ]_vars

\* Scenario A's relays were published before the clock moved and the lines
\* rebuilt for a three-column terminal after it: two events, one bucket
NarrowedAfterTick ==
    /\ Observable
    /\ app.audit = AuditBusy
    /\ app.relayed_count_day = 3
    /\ app.screen_width = LINE_MARGINS + 1
    /\ app.relays_amounts_line = <<100>>
    /\ app.relays_maximum_count = 2
    /\ app.relays_maximum_volume = 4000

\* every field of an App but the width and the four histogram fields
Framed(a) ==
    [a EXCEPT !.screen_width = 0,
              !.relays_amounts_line = <<>>, !.relays_maximum_count = 0,
              !.relays_volumes_line = <<>>, !.relays_maximum_volume = 0]

\* C10: a step that changes the stored width changes no other field of the
\* App than the two series and their maxima, and, unless it ends the
\* process, leaves the poller where it is and its fetched data untouched.
ResizeTouchesOnlyHistograms ==
    [][ app'.screen_width # app.screen_width =>
            /\ Framed(app') = Framed(app)
            /\ proc' = "running" => (pc' = pc /\ w' = w /\ holder' = holder) ]_vars

\* the terminal is back at 80 columns after the clock moved: the count line
\* is rebuilt, the statistics and totals of the publish are still there
WidenedAfterTick ==
    /\ Observable
    /\ app.audit = AuditBusy
    /\ app.screen_width = InitWidth
    /\ app.relayed_count_day = 3
    /\ Len(app.relays_amounts_line) = InitWidth - LINE_MARGINS
    /\ app.relays_amounts_line[39] = 100
    /\ Len(app.channels_stats) = 3

InCycle ==
    {"get_channels", "get_audit", "get_nodes", "get_hosted", "get_fiat",
     "publish", "publish_lines", "publish_totals", "publish_stats", "failed"}

\* C12: unless the process is ended from the terminal side, every cycle
\* that has started reaches the sleep that ends it, whether it published or
\* failed, and every sleep is followed by the start of another cycle.
CyclesEndAndRestart ==
    \/ <>(proc = "exited")
    \/ /\ (pc \in InCycle) ~> (pc = "sleep")
       /\ (pc = "sleep") ~> (pc = "get_channels")

\* the poller's positions while a query is in flight
Querying ==
    {"get_channels", "get_audit", "get_nodes", "get_hosted", "get_fiat"}

\* C13: while a query is in flight the poller does not hold the mutex, so
\* the lock a render tick, key event or resize asks for is free.
NoLockAcrossQueries ==
    (proc = "running" /\ pc \in Querying) => holder = "none"

\* the audit query is in flight with Scenario A fetched, the last snapshot
\* and a logged error are there to be read, and the mutex is free
ReadableWhileQuerying ==
    /\ proc = "running"
    /\ pc = "get_audit"
    /\ w.chan_info = ChannelsA
    /\ holder = "none"
    /\ app.channels = ChannelsB
    /\ app.errors # <<>>

\* C14: for a plugin the start-up probe did not find, the poller is never at
\* the plugin's query, never holds an answer of it, and the stored channel
\* map and statistic list of that plugin are empty in every state, after
\* every cycle included.
UnsupportedNeverQueried ==
    /\ "HostedChannels" \notin app.supported =>
        /\ pc # "get_hosted"
        /\ w.hosted_chans = EmptyMap
        /\ app.hc_channels = EmptyMap
        /\ app.hosted_stats = <<>>
    /\ "FiatChannels" \notin app.supported =>
        /\ pc # "get_fiat"
        /\ w.fiat_chans = EmptyMap
        /\ app.fc_channels = EmptyMap
        /\ app.fiat_stats = <<>>

\* a node with the fiat plugin only: a cycle published the fiat channel and
\* nothing hosted
FiatOnlyPublished ==
    /\ Observable
    /\ app.supported = {"FiatChannels"}
    /\ cycle.outcome = "published"
    /\ app.channels = ChannelsA
    /\ app.fc_channels = FiatMap
    /\ Len(app.fiat_stats) = 1
    /\ app.hc_channels = EmptyMap
    /\ app.hosted_stats = <<>>

\* C15: right after a cycle published, return_rate is the quotient of
\* 12 * 100 * fee_month by active_sats + pending_sats + sleeping_sats as
\* stored by that cycle; and the step that computes it goes on to the rest
\* of the publish when that sum is 0 (the fee sums themselves not
\* panicking), leaving a quotient by 0, a non-finite value.
ReturnRateOfTheCycle ==
    /\ [](  (Observable /\ cycle.outcome = "published") =>
                app.return_rate = <<12 * 100 * app.fee_month,
                                    app.active_sats + app.pending_sats + app.sleeping_sats>>)
    /\ [][ (pc = "publish_totals" /\ pc' # pc
            /\ app.active_sats + app.pending_sats + app.sleeping_sats = 0
            /\ ~get_fee(app.audit, MONTH, now, overflow_checks).panic
            /\ ~get_fee(app.audit, DAY, now, overflow_checks).panic) =>
                /\ pc' = "publish_stats"
                /\ proc' = "running"
                /\ app'.return_rate[2] = 0 ]_vars

\* a node without channels has been published: the rate is 0 / 0
RateUndefinedPublished ==
    /\ Observable
    /\ cycle.outcome = "published"
    /\ app.channels = <<>>
    /\ app.active_sats + app.pending_sats + app.sleeping_sats = 0
    /\ app.return_rate = <<0, 0>>

\* C16: computing the snapshot twice from the same answers with the clock
\* frozen gives the same three statistic lists, entry by entry, info_id
\* included.
SnapshotRepeatable ==
    fn_out.kind = "snapshot" => fn_out.first = fn_out.second

\* C17: on a terminal wide enough to have a bucket, the binner never indexes
\* outside its bucket vector: both variants return, and every retained
\* event, one stamped after the clock included, is in a bucket.
BucketIndexStaysInside ==
    (fn_out.kind = "bin" /\ fn_in.screen_width > LINE_MARGINS) =>
        /\ ~fn_out.amounts.panic
        /\ ~fn_out.volumes.panic
        /\ SumSeq(fn_out.amounts.raw)
             = Len(InWindow(fn_in.relayed, LINE_PERIOD, fn_in.t))
        /\ SumSeq(fn_out.volumes.raw)
             = get_relayed(fn_in.relayed, LINE_PERIOD, fn_in.t)

\* C18: when the largest accumulated bucket max is not 0, every value of the
\* returned series is 100 * bucket / max rounded to the nearest integer
\* (halves up), in both variants.
NormalizedIsRounded ==
    fn_out.kind = "bin" =>
        \A r \in {fn_out.amounts, fn_out.volumes} :
            (~r.panic /\ r.raw # <<>> /\ r.max > 0) =>
                /\ Len(r.line) = Len(r.raw)
                /\ \A i \in 1..Len(r.raw) :
                    r.line[i] = (2 * 100 * r.raw[i] + r.max) \div (2 * r.max)

\* C19: whenever the poller holds the lock the derived fields have been
\* computed already: no answer it fetched is still waiting in its locals to
\* be turned into histograms, totals or statistics, so that what is left to
\* do under the lock is assignment.
DerivedBuiltBeforeLock ==
    holder = "worker" => (w.audit_info = <<>> /\ w.nodes_info = <<>>)

\* the positions the poller may go to from position p, the node supporting
\* the plugins S
ChainAfter(p, S) ==
    CASE p = "start" -> {"get_channels"}
      [] p = "get_channels" -> {"get_audit", "failed"}
      [] p = "get_audit" -> {"get_nodes", "failed"}
      [] p = "get_nodes" ->
            {"failed",
             IF "HostedChannels" \in S THEN "get_hosted"
             ELSE IF "FiatChannels" \in S THEN "get_fiat" ELSE "publish"}
      [] p = "get_hosted" ->
            {"failed", IF "FiatChannels" \in S THEN "get_fiat" ELSE "publish"}
      [] p = "get_fiat" -> {"publish", "failed"}
      [] p = "publish" -> {"publish_lines"}
      [] p = "publish_lines" -> {"publish_totals"}
      [] p = "publish_totals" -> {"publish_stats"}
      [] p = "publish_stats" -> {"sleep"}
      [] p = "failed" -> {"sleep"}
      [] p = "sleep" -> {"start"}
      [] OTHER -> {}

\* C20: the poller is one sequential chain: from each position it goes to
\* the next one of the order channels, audit, nodes, hosted (if supported),
\* fiat (if supported), publish, sleep, start, or from a query to the
\* failure that ends the cycle with no further query, unless a panic ends
\* the task; the node lookup asks for the distinct counterparts of the
\* channels just fetched; a failure drops the answers fetched so far.
CycleIsSequential ==
    [][ pc' # pc =>
            /\ pc' \in ChainAfter(pc, app.supported) \cup {"dead"}
            /\ (pc = "get_nodes" /\ pc' \notin {"failed", "dead"}) =>
                    w'.nodes_info = SelectSeq(Directory, LAMBDA n :
                        \E k \in 1..Len(w.chan_info) : w.chan_info[k].node_id = n.node_id)
            /\ pc' = "failed" =>
                    /\ pc \in Querying
                    /\ w'.chan_info = <<>> /\ w'.audit_info = <<>> /\ w'.nodes_info = <<>>
                    /\ w'.hosted_chans = EmptyMap /\ w'.fiat_chans = EmptyMap ]_vars

\* every query of a cycle has returned, in order, on a node with both plugins
WholeChainFetched ==
    /\ proc = "running"
    /\ pc = "publish"
    /\ app.supported = Plugins
    /\ w.chan_info = ChannelsA
    /\ w.audit_info = AuditBusy
    /\ Len(w.nodes_info) = 2
    /\ w.hosted_chans = HostedMap
    /\ w.fiat_chans = FiatMap

\* the positions in `relayed` of the events stamped after t - interval
WindowEvents(relayed, interval, t) ==
    { k \in 1..Len(relayed) : relayed[k].unix > t - interval }

\* the number of the events at the positions ks, the sum of their amount_in
\* and the sum of their amount_in - amount_out
FiguresOver(relayed, ks) ==
    [count  |-> Cardinality(ks),
     volume |-> SumSeq([k \in 1..Len(relayed) |->
                    IF k \in ks THEN relayed[k].amount_in ELSE 0]),
     fee    |-> SumSeq([k \in 1..Len(relayed) |->
                    IF k \in ks THEN relayed[k].amount_in - relayed[k].amount_out
                    ELSE 0])]

\* C21: the step of a cycle that stores the window totals stores, for the
\* day and for the month, the number of the stored relay events stamped
\* after now - interval, the sum of their amount_in and the sum of their
\* amount_in - amount_out, `now` being the clock of that step; an event
\* stamped exactly now - interval is not in the window.  A stored fee is a
\* u64: a value below zero is the residue of a wrapped sum and is no sum of
\* differences.
WindowTotalsMatchEvents ==
    [][ (pc = "publish_totals" /\ pc' = "publish_stats") =>
            LET day   == FiguresOver(app'.audit, WindowEvents(app'.audit, DAY, now))
                month == FiguresOver(app'.audit, WindowEvents(app'.audit, MONTH, now))
            IN  /\ app'.relayed_count_day = day.count
                /\ app'.relayed_day = day.volume
                /\ app'.fee_day = day.fee /\ app'.fee_day >= 0
                /\ app'.relayed_count_month = month.count
                /\ app'.relayed_month = month.volume
                /\ app'.fee_month = month.fee /\ app'.fee_month >= 0 ]_vars

\* the same on the cycles whose events all pay a fee
WindowTotalsMatchPayingEvents ==
    [][ (pc = "publish_totals" /\ pc' = "publish_stats"
            /\ \A k \in 1..Len(app.audit) :
                    app.audit[k].amount_in >= app.audit[k].amount_out) =>
            LET day   == FiguresOver(app'.audit, WindowEvents(app'.audit, DAY, now))
                month == FiguresOver(app'.audit, WindowEvents(app'.audit, MONTH, now))
            IN  /\ app'.relayed_count_day = day.count
                /\ app'.relayed_day = day.volume
                /\ app'.fee_day = day.fee /\ app'.fee_day >= 0
                /\ app'.relayed_count_month = month.count
                /\ app'.relayed_month = month.volume
                /\ app'.fee_month = month.fee /\ app'.fee_month >= 0 ]_vars

\* totals stored while an event lay exactly on the edge of the day
BoundaryEventLeftOut ==
    /\ Observable
    /\ cycle.outcome = "published"
    /\ \E k \in 1..Len(app.audit) : app.audit[k].unix = now - DAY
    /\ app.relayed_count_day = 2
    /\ app.relayed_count_month = 4

\* the positions in `relayed` of the events of the last day that enter or
\* leave the channel id: a set, so that an event is in it once
ChannelEvents(relayed, id, t) ==
    { k \in WindowEvents(relayed, DAY, t) :
        relayed[k].from_channel_id = id \/ relayed[k].to_channel_id = id }

\* the three relay figures of the statistic st are those of its channel's
\* events of the last day, and its fee is no wrapped residue
StatMatchesEvents(st, relayed, t) ==
    LET f == FiguresOver(relayed, ChannelEvents(relayed, st.chan_id, t))
    IN  /\ st.relays_amount = f.count
        /\ st.relays_volume = f.volume
        /\ st.relays_fees = f.fee /\ st.relays_fees >= 0

AllStatsMatchEvents(a, t) ==
    /\ \A j \in 1..Len(a.channels_stats) :
            StatMatchesEvents(a.channels_stats[j], a.audit, t)
    /\ \A j \in 1..Len(a.hosted_stats) :
            StatMatchesEvents(a.hosted_stats[j], a.audit, t)
    /\ \A j \in 1..Len(a.fiat_stats) :
            StatMatchesEvents(a.fiat_stats[j], a.audit, t)

\* C22: the step of a cycle that stores the statistics gives every
\* standard, hosted and fiat channel, as relays_amount, relays_volume and
\* relays_fees, the number, the sum of amount_in and the sum of amount_in -
\* amount_out of exactly the stored events of the last day whose
\* from_channel_id or to_channel_id is the channel's id, each event once,
\* and 0 three times for a channel without such an event.
ChannelFiguresMatchEvents ==
    [][ (pc = "publish_stats" /\ pc' = "sleep") => AllStatsMatchEvents(app', now) ]_vars

\* the same on the cycles whose events all pay a fee
ChannelFiguresMatchPayingEvents ==
    [][ (pc = "publish_stats" /\ pc' = "sleep"
            /\ \A k \in 1..Len(app.audit) :
                    app.audit[k].amount_in >= app.audit[k].amount_out) =>
            AllStatsMatchEvents(app', now) ]_vars

\* statistics of busy and of idle channels of the three kinds are stored
BusyAndIdleChannelsStored ==
    /\ Observable
    /\ cycle.outcome = "published"
    /\ \E j \in 1..Len(app.channels_stats) :
            /\ app.channels_stats[j].chan_id = "c2"
            /\ app.channels_stats[j].relays_amount = 2
            /\ app.channels_stats[j].relays_volume = 4000
            /\ app.channels_stats[j].relays_fees = 20
    /\ \E j \in 1..Len(app.channels_stats) :
            /\ app.channels_stats[j].chan_id = "c3"
            /\ app.channels_stats[j].relays_amount = 0
            /\ app.channels_stats[j].relays_volume = 0
            /\ app.channels_stats[j].relays_fees = 0
    /\ \E j \in 1..Len(app.hosted_stats) : app.hosted_stats[j].relays_amount = 1
    /\ \E j \in 1..Len(app.fiat_stats) : app.fiat_stats[j].relays_amount = 0

\* C23: in every state a reader can observe, the statistic of a record of
\* the standard channel list is tagged Normal exactly when the record has
\* its payload and is tagged Hosted with local = remote = 0 when it has
\* none, a statistic of the hosted map is tagged Hosted, one of the fiat
\* map is tagged HostedFiat and carries the channel's rate, and no statistic
\* with another tag than Normal is public.
StatsTaggedByOrigin ==
    Observable =>
        /\ Len(app.channels_stats) = Len(app.channels)
        /\ \A j \in 1..Len(app.channels_stats) :
            LET st == app.channels_stats[j]
                c  == app.channels[j]
            IN  /\ (st.channel_ext = "Normal") <=> (c.data # <<>>)
                /\ c.data = <<>> =>
                        (st.channel_ext = "Hosted" /\ st.local = 0 /\ st.remote = 0)
        /\ \A j \in 1..Len(app.hosted_stats) :
                app.hosted_stats[j].channel_ext = "Hosted"
        /\ \A j \in 1..Len(app.fiat_stats) :
            LET st == app.fiat_stats[j]
            IN  /\ st.channel_ext = "HostedFiat"
                /\ st.chan_id \in DOMAIN app.fc_channels
                /\ st.fiat.rate = app.fc_channels[st.chan_id].rate
        /\ \A st \in { app.channels_stats[j] : j \in 1..Len(app.channels_stats) }
                \cup { app.hosted_stats[j] : j \in 1..Len(app.hosted_stats) }
                \cup { app.fiat_stats[j] : j \in 1..Len(app.fiat_stats) } :
                st.channel_ext # "Normal" => ~st.public

\* a published snapshot with the four kinds of statistic: a standard channel
\* with payload, one without, a hosted and a fiat channel
FourTagsPublished ==
    /\ Observable
    /\ \E j \in 1..Len(app.channels_stats) :
            app.channels[j].data = <<>> /\ app.channels_stats[j].channel_ext = "Hosted"
    /\ \E j \in 1..Len(app.channels_stats) :
            app.channels[j].data # <<>> /\ app.channels_stats[j].channel_ext = "Normal"
                /\ app.channels_stats[j].public
    /\ \E j \in 1..Len(app.hosted_stats) : app.hosted_stats[j].channel_ext = "Hosted"
    /\ \E j \in 1..Len(app.fiat_stats) : app.fiat_stats[j].fiat.rate = 3

\* the three classes of an answer to a probe
ProbeSucceeds(answer) ==
    answer.sent /\ answer.status \in 200..299

ProbeNotFound(answer) ==
    answer.sent /\ answer.status = 404

ProbeFails(answer) ==
    ~ProbeSucceeds(answer) /\ ~ProbeNotFound(answer)

\* C24: start-up fails exactly when the probe of some plugin meets a
\* transport failure or a failure status other than 404; otherwise the App
\* starts with exactly the plugins whose probe met a success status as
\* supported, a plugin answered with 404 being unsupported.  No failed probe
\* is recorded as unsupported.
ProbeClassifiesAnswers ==
    fn_out.kind = "probe" =>
        LET answers == fn_in.answers
            started == fn_out.started
        IN  /\ started.err <=> \E p \in Plugins : ProbeFails(answers[p])
            /\ started.err => started.app = <<>>
            /\ ~started.err =>
                /\ Len(started.app) = 1
                /\ started.app[1].supported =
                        { p \in Plugins : ProbeSucceeds(answers[p]) }
                /\ \A p \in Plugins \ started.app[1].supported :
                        ProbeNotFound(answers[p])

\* a start-up that found one plugin and a 404 for the other
OneFoundOneMissing ==
    /\ fn_out.kind = "probe"
    /\ fn_in.answers["HostedChannels"].status = 404
    /\ fn_in.answers["FiatChannels"].status = 204
    /\ ~fn_out.started.err
    /\ fn_out.started.app[1].supported = {"FiatChannels"}

\* a start-up that failed on the second probe after the first succeeded
SecondProbeFailed ==
    /\ fn_out.kind = "probe"
    /\ fn_in.answers["HostedChannels"].status = 200
    /\ fn_in.answers["FiatChannels"].status = 500
    /\ fn_out.started.err

\* C25: at every frame width, the widths 0, 1 and 2 included, and for events
\* none of which is stamped after the clock, the binner's subtraction
\* screen_width - margin - 1 does not underflow, the call returns, and the
\* series it returns has at most screen_width buckets.
BinnerSafeAtEveryWidth ==
    (/\ fn_out.kind = "bin"
     /\ \A k \in 1..Len(fn_in.relayed) : fn_in.relayed[k].unix <= fn_in.t) =>
        \A r \in {fn_out.amounts, fn_out.volumes} :
            /\ ~r.overflow
            /\ ~r.panic
            /\ Len(r.line) <= fn_in.screen_width

\* C26: whatever relay events the node returned, the step that stores the
\* window fees ends with the fees stored (the cycle is not aborted), neither
\* fee is the residue of a wrapped subtraction, and fee_day <= relayed_day
\* and fee_month <= relayed_month; the step that stores the statistics ends
\* with them stored and no relays_fees is a wrapped residue.
FeesNeverUnderflow ==
    [][ /\ (pc = "publish_totals" /\ pc' # pc) =>
                /\ pc' = "publish_stats"
                /\ app'.fee_day >= 0 /\ app'.fee_month >= 0
                /\ app'.fee_day <= app'.relayed_day
                /\ app'.fee_month <= app'.relayed_month
        /\ (pc = "publish_stats" /\ pc' # pc) =>
                /\ pc' = "sleep"
                /\ \A st \in { app'.channels_stats[j] : j \in 1..Len(app'.channels_stats) }
                        \cup { app'.hosted_stats[j] : j \in 1..Len(app'.hosted_stats) }
                        \cup { app'.fiat_stats[j] : j \in 1..Len(app'.fiat_stats) } :
                        st.relays_fees >= 0 ]_vars

\* the positions at which the poller is inside its locked block
LockedBlock ==
    {"publish_lines", "publish_totals", "publish_stats"}

\* C27: the lock never deadlocks: the poller holds it only inside its
\* locked block, so never over a query, over the sleep or when its task has
\* ended; it is taken only when it is free, at the entry of the block; and
\* whenever the poller holds it, it is released later, by the end of the
\* block or by the unwinding of a panic, so that the render tick and the key
\* handler, which take and release it within one step, get it.
LockNeverDeadlocks ==
    /\ [](holder = "worker" => (proc = "running" /\ pc \in LockedBlock))
    /\ [][ (holder' = "worker" /\ pc \notin LockedBlock) =>
                (holder = "none" /\ pc = "publish") ]_vars
    /\ (holder = "worker" ~> holder = "none")

\* the poller inside its locked block, the lock taken, a reader kept waiting
PollerHoldsLock ==
    /\ holder = "worker"
    /\ pc = "publish_totals"
    /\ ~ENABLED Draw
    /\ ~ENABLED KeyEnter
    /\ app.errors # <<>>

\* the lock released by a panic inside the locked block
ReleasedByPanic ==
    /\ proc = "poisoned"
    /\ holder = "none"
    /\ pc = "dead"

\* C28: in every state a reader can observe, whatever cycles and resizes
\* came before and however the clock advanced between the steps of a cycle,
\* the largest bucket of the count histogram is at most the count of the
\* day, the day's count, volume and fee are at most the month's.
ObservableTotalsOrdered ==
    Observable =>
        /\ app.relays_maximum_count <= app.relayed_count_day
        /\ app.relayed_count_day <= app.relayed_count_month
        /\ app.relayed_day <= app.relayed_month
        /\ app.fee_day <= app.fee_month

\* the same without the histogram's largest bucket
DayWithinMonth ==
    Observable =>
        /\ app.relayed_count_day <= app.relayed_count_month
        /\ app.relayed_day <= app.relayed_month
        /\ app.fee_day <= app.fee_month

\* C29: no step of the dashboard, a poll cycle that succeeds or fails, a
\* resize or a key event, changes the node identity or the set of supported
\* plugins the App was constructed with.
IdentityAndPluginsFixed ==
    [][ /\ app'.node_info = app.node_info
        /\ app'.supported = app.supported ]_vars

\* one plugin supported, and a published cycle, a resize and a failed cycle
\* behind
OnePluginAfterManySteps ==
    /\ Observable
    /\ app.supported = {"HostedChannels"}
    /\ app.node_info = "tortoise"
    /\ app.channels # <<>>
    /\ app.hc_channels # EmptyMap
    /\ app.screen_width # InitWidth
    /\ app.errors # <<>>

\* C30: in every state a reader can observe, channels_stats has one entry
\* per record of the stored channel list, in the list's order: entry j
\* (counted from 0) has info_id = j, below the length of the list, and the
\* channel_id and the state of record j, so that channels[info_id] is the
\* record the entry was built from.
StatsIndexChannels ==
    Observable =>
        /\ Len(app.channels_stats) = Len(app.channels)
        /\ \A j \in 1..Len(app.channels_stats) :
            LET st == app.channels_stats[j]
            IN  /\ st.info_id = j - 1
                /\ st.info_id < Len(app.channels)
                /\ st.chan_id = app.channels[st.info_id + 1].channel_id
                /\ st.chan_state = app.channels[st.info_id + 1].state

\* the statistics of the list with a record without payload, published by
\* a cycle that had a failed one for neighbour
ChannelListReplaced ==
    /\ Observable
    /\ app.channels = ChannelsB
    /\ Len(app.channels_stats) = 3
    /\ app.channels_stats[3].info_id = 2
    /\ app.channels_stats[3].chan_id = "c2"
    /\ app.channels_stats[3].chan_state = "SYNCING"
    /\ app.errors # <<>>

====
